---------------------------- MODULE Spec2Model ----------------------------
(***************************************************************************)
(* A model of jpgfromraw (src/src/main.rs): the IFD walker                 *)
(* find_largest_embedded_jpeg, the writer write_jpeg / get_app1_bytes,     *)
(* the per-file pipeline process_file, and the batch scheduler of          *)
(* process_directory and main.                                             *)
(*                                                                         *)
(* Three specifications share the module's variables:                      *)
(*   SpecFile  one call of process_file on one input buffer, step by step  *)
(*   Spec      the batch: spawn, semaphore, tasks, join loop, main's exit  *)
(*   SpecTree  the program on a directory tree, run twice: the scan, the   *)
(*             batch, the files it leaves under the output directory       *)
(*                                                                         *)
(* Rust slices are 0-based and half-open; TLA+ sequences are 1-based.      *)
(* Slice(s, a, b) is &s[a..b].  usize is taken to be 64 bits wide, so the  *)
(* sums of two u32 values the code forms never wrap.                       *)
(***************************************************************************)
EXTENDS Integers, Sequences, FiniteSets, TLC

(***************************************************************************)
(* Bounds of the model.                                                    *)
(***************************************************************************)
\* the longest IFD chain the generated input buffers hold
MaxIFDs == 2
\* the number of loop iterations of the walker the model follows
MaxIter == 4
\* the most files a batch holds
NumFiles == 3
\* the greatest concurrency cap (--transfers) a batch is run with
MaxTransfers == 2

(***************************************************************************)
(* Program constants.                                                      *)
(***************************************************************************)
IFD_ENTRY_SIZE == 12
JPEG_TAG == 513
JPEG_LENGTH_TAG == 514
ORIENTATION_TAG == 274
TIFF_MAGIC_LE == <<73, 73, 42, 0>>
TIFF_MAGIC_BE == <<77, 77, 0, 42>>

\* Option<T>: None is the empty sequence, Some(v) the one-element sequence.
None == <<>>
Some(v) == <<v>>

\* &s[a..b]
Slice(s, a, b) == SubSeq(s, a + 1, b)
\* &s[a..]
SliceFrom(s, a) == SubSeq(s, a + 1, Len(s))

\* byteorder::{LittleEndian, BigEndian}::read_u16 on a slice of >= 2 bytes
read_u16(le, s) ==
    IF le THEN s[1] + 256 * s[2]
          ELSE s[2] + 256 * s[1]

\* byteorder::{LittleEndian, BigEndian}::read_u32 on a slice of >= 4 bytes
read_u32(le, s) ==
    IF le THEN s[1] + 256 * s[2] + 65536 * s[3] + 16777216 * s[4]
          ELSE s[4] + 256 * s[3] + 65536 * s[2] + 16777216 * s[1]

\* EmbeddedJpegInfo::default()
DefaultJpegInfo == [offset |-> 0, length |-> 0, orientation |-> None]

(***************************************************************************)
(* find_largest_embedded_jpeg, lines 120-147: the scan of one IFD's        *)
(* entries.                                                                *)
(***************************************************************************)
\* line 133: the orientation is the u16 at bytes 8..10 of the entry
OrientationValue_AsU32(le, entry) == read_u32(le, Slice(entry, 8, 12))
OrientationValue(le, entry) == read_u16(le, Slice(entry, 8, 10))

\* line 138: a candidate replaces the running best when it is longer
Better_Always(length, largest) == TRUE
Better(length, largest) == length > largest.length

\* A scan that reads every entry of the IFD and compares the candidate only
\* after the last one (no break at line 145).
RECURSIVE ScanEntries_WholeIFD(_, _, _, _, _, _, _, _)
ScanEntries_WholeIFD(le, entries_cursor, i, num_entries, cur_offset, cur_length, cur_orientation, largest) ==
    IF i >= num_entries \/ (i + 1) * IFD_ENTRY_SIZE > Len(entries_cursor)
    THEN IF cur_offset # None /\ cur_length # None /\ cur_length[1] > largest.length
         THEN [offset |-> cur_offset[1], length |-> cur_length[1],
               orientation |-> cur_orientation]
         ELSE largest
    ELSE LET entry == Slice(entries_cursor, i * IFD_ENTRY_SIZE,
                            (i + 1) * IFD_ENTRY_SIZE)
             tag == read_u16(le, Slice(entry, 0, 2))
         IN  ScanEntries_WholeIFD(le, entries_cursor, i + 1, num_entries,
                 IF tag = JPEG_TAG
                 THEN Some(read_u32(le, Slice(entry, 8, 12))) ELSE cur_offset,
                 IF tag = JPEG_LENGTH_TAG
                 THEN Some(read_u32(le, Slice(entry, 8, 12))) ELSE cur_length,
                 IF tag = ORIENTATION_TAG
                 THEN Some(read_u16(le, Slice(entry, 8, 10))) ELSE cur_orientation,
                 largest)

\* The for loop over entries_cursor.chunks_exact(12).take(num_entries),
\* from entry i on, with the three cur_* locals; returns largest_jpeg.
RECURSIVE ScanEntries(_, _, _, _, _, _, _, _)
ScanEntries(le, entries_cursor, i, num_entries, cur_offset, cur_length, cur_orientation, largest) ==
    IF i >= num_entries \/ (i + 1) * IFD_ENTRY_SIZE > Len(entries_cursor)
    THEN largest
    ELSE LET entry == Slice(entries_cursor, i * IFD_ENTRY_SIZE,
                            (i + 1) * IFD_ENTRY_SIZE)
             tag == read_u16(le, Slice(entry, 0, 2))
             off2 == IF tag = JPEG_TAG
                     THEN Some(read_u32(le, Slice(entry, 8, 12)))
                     ELSE cur_offset
             len2 == IF tag = JPEG_LENGTH_TAG
                     THEN Some(read_u32(le, Slice(entry, 8, 12)))
                     ELSE cur_length
             ori2 == IF tag = ORIENTATION_TAG
                     THEN Some(OrientationValue(le, entry))
                     ELSE cur_orientation
         IN  IF off2 # None /\ len2 # None
             THEN IF Better(len2[1], largest)
                  THEN [offset |-> off2[1], length |-> len2[1],
                        orientation |-> ori2]
                  ELSE largest
             ELSE ScanEntries(le, entries_cursor, i + 1, num_entries,
                              off2, len2, ori2, largest)

(***************************************************************************)
(* find_largest_embedded_jpeg, lines 107-155: one iteration of the while   *)
(* loop at a non-zero next_ifd_offset.  err is "" when the iteration       *)
(* passed its three ensure!s.  A slice expression whose range is not       *)
(* inside the slice it indexes panics: err is then SliceOutOfRange.        *)
(***************************************************************************)
\* the panic of an out-of-range slice index
SliceOutOfRange == "slice index out of range"

\* line 108: the ensure! on the IFD offset
IfdOffsetOk_NoCount(off, buf) == off <= Len(buf)
IfdOffsetOk(off, buf) == off + 2 <= Len(buf)

WalkIFD(le, buf, off, largest) ==
    IF ~IfdOffsetOk(off, buf)
    THEN [err |-> "Invalid IFD offset", next |-> 0, largest |-> largest]
    ELSE IF off > Len(buf) \/ Len(buf) - off < 2
    \* lines 110-112: &raw_buf[off..], &cursor[..2], &cursor[2..]
    THEN [err |-> SliceOutOfRange, next |-> 0, largest |-> largest]
    ELSE LET cursor == SliceFrom(buf, off)
             num_entries == read_u16(le, Slice(cursor, 0, 2))
             entries_cursor == SliceFrom(cursor, 2)
             entries_len == num_entries * IFD_ENTRY_SIZE
         IN  IF ~(Len(entries_cursor) >= entries_len)
             THEN [err |-> "Invalid number of IFD entries", next |-> 0,
                   largest |-> largest]
             ELSE LET found == ScanEntries(le, entries_cursor, 0, num_entries,
                                           None, None, None, largest)
                      next_ifd_offset_offset == 2 + entries_len
                  IN  IF ~(Len(cursor) >= next_ifd_offset_offset + 4)
                      THEN [err |-> "Invalid next IFD offset", next |-> 0,
                            largest |-> found]
                      ELSE IF Len(cursor) - next_ifd_offset_offset < 4
                      \* line 154: &cursor[next_ifd_offset_offset..][..4]
                      THEN [err |-> SliceOutOfRange, next |-> 0,
                            largest |-> found]
                      ELSE [err |-> "",
                            next |-> read_u32(le,
                                       Slice(cursor, next_ifd_offset_offset,
                                             next_ifd_offset_offset + 4)),
                            largest |-> found]

\* lines 84-90: the two ensure!s on the header; "" when both pass
HeaderError(buf) ==
    IF ~(Len(buf) >= 8) THEN "Not enough data for TIFF header"
    ELSE IF ~(Slice(buf, 0, 4) = TIFF_MAGIC_LE \/ Slice(buf, 0, 4) = TIFF_MAGIC_BE)
         THEN "Not a valid TIFF file"
         ELSE ""

\* lines 161-164: the range check on the winning candidate
InBounds_Unchecked(jpeg, buf) == TRUE
InBounds(jpeg, buf) == jpeg.offset + jpeg.length <= Len(buf)

\* lines 157-164: the two ensure!s after the loop; "" when both pass
FinalError(largest, buf) ==
    IF ~(largest # DefaultJpegInfo) THEN "No JPEG data found"
    ELSE IF ~InBounds(largest, buf) THEN "JPEG data exceeds file size"
         ELSE ""

(***************************************************************************)
(* get_app1_bytes and the parts of write_jpeg.                             *)
(***************************************************************************)
\* u16::to_le_bytes
to_le_bytes(v) == <<v % 256, v \div 256>>

get_app1_bytes(orientation) ==
    <<255, 225,                       \* APP1
      0, 30,                          \* 30 bytes including this length
      69, 120, 105, 102, 0, 0,        \* Exif\0\0
      73, 73, 42, 0,                  \* TIFF LE
      8, 0, 0, 0,                     \* Offset to IFD
      1, 0,                           \* One entry in IFD
      18, 1,                          \* Tag for orientation
      3, 0,                           \* Type: SHORT
      1, 0, 0, 0>>                    \* Count: 1
    \o to_le_bytes(orientation)       \* Orientation
    \o <<0, 0>>                       \* Next IFD

\* line 200: the SOI marker
SOI == <<255, 216>>

\* lines 201-204: what write_jpeg writes between the SOI and the body
App1Part_Default1(jpeg_info) ==
    IF jpeg_info.orientation # None
    THEN get_app1_bytes(jpeg_info.orientation[1])
    ELSE get_app1_bytes(1)
App1Part(jpeg_info) ==
    IF jpeg_info.orientation # None
    THEN get_app1_bytes(jpeg_info.orientation[1])
    ELSE <<>>

\* line 205: &jpeg_buf[2..], which panics when jpeg_buf is shorter than 2
BodyPanics(jpeg_buf) == Len(jpeg_buf) < 2
BodyPart_WithSOI(jpeg_buf) == jpeg_buf
BodyPart(jpeg_buf) == SliceFrom(jpeg_buf, 2)

(***************************************************************************)
(* Input buffers.  A layout describes a TIFF container; Encode lays it out *)
(* as bytes: the 8-byte header, the IFDs one after the other (entry count, *)
(* 12-byte entries, next-IFD offset), then one JPEG data region per IFD.   *)
(* The walker only ever sees the bytes.                                    *)
(***************************************************************************)
enc_u16(le, v) == IF le THEN <<v % 256, v \div 256>> ELSE <<v \div 256, v % 256>>
enc_u32(le, v) ==
    IF le THEN <<v % 256, (v \div 256) % 256, (v \div 65536) % 256, v \div 16777216>>
          ELSE <<v \div 16777216, (v \div 65536) % 256, (v \div 256) % 256, v % 256>>

IfdSize(ifd) == 2 + IFD_ENTRY_SIZE * Len(ifd.shape) + 4

RECURSIVE SumSizes(_, _)
SumSizes(ifds, k) == IF k = 0 THEN 0 ELSE IfdSize(ifds[k]) + SumSizes(ifds, k - 1)

RECURSIVE SumLens(_, _)
SumLens(ifds, k) == IF k = 0 THEN 0 ELSE ifds[k].len + SumLens(ifds, k - 1)

\* the offset of IFD k, of the data regions, and of the JPEG data of IFD k
IfdOff(L, k) == 8 + SumSizes(L.ifds, k - 1)
DataStart(L) == 8 + SumSizes(L.ifds, Len(L.ifds))
JpegOff(L, k) == DataStart(L) + SumLens(L.ifds, k - 1)

\* the embedded JPEG of IFD k: FF D8, then bytes that differ per IFD
JpegBytes(k, n) == [i \in 1..n |-> IF i = 1 THEN 255 ELSE IF i = 2 THEN 216 ELSE 16 * k + i]

\* the orientation value stored in IFD k (one of them above 255)
OriOf(k) == IF k = 1 THEN 6 ELSE 256 + k

EntryBytes(L, k, tag) ==
    IF tag = "OFF"
    THEN enc_u16(L.le, JPEG_TAG) \o enc_u16(L.le, 4) \o enc_u32(L.le, 1)
         \o enc_u32(L.le, JpegOff(L, k))
    ELSE IF tag = "LEN"
    THEN enc_u16(L.le, JPEG_LENGTH_TAG) \o enc_u16(L.le, 4) \o enc_u32(L.le, 1)
         \o enc_u32(L.le, L.ifds[k].len)
    ELSE IF tag = "ORI"
    THEN enc_u16(L.le, ORIENTATION_TAG) \o enc_u16(L.le, 3) \o enc_u32(L.le, 1)
         \o enc_u16(L.le, OriOf(k)) \o <<0, 0>>
    ELSE enc_u16(L.le, 256) \o enc_u16(L.le, 4) \o enc_u32(L.le, 1)
         \o enc_u32(L.le, 77)

RECURSIVE EntriesBytes(_, _, _)
EntriesBytes(L, k, i) ==
    IF i > Len(L.ifds[k].shape) THEN <<>>
    ELSE EntryBytes(L, k, L.ifds[k].shape[i]) \o EntriesBytes(L, k, i + 1)

NextOf(L, k) == IF k < Len(L.ifds) THEN IfdOff(L, k + 1) ELSE L.last_next

IfdBytes(L, k) ==
    enc_u16(L.le, Len(L.ifds[k].shape)) \o EntriesBytes(L, k, 1)
    \o enc_u32(L.le, NextOf(L, k))

RECURSIVE AllIfdBytes(_, _)
AllIfdBytes(L, k) ==
    IF k > Len(L.ifds) THEN <<>> ELSE IfdBytes(L, k) \o AllIfdBytes(L, k + 1)

RECURSIVE AllJpegBytes(_, _)
AllJpegBytes(L, k) ==
    IF k > Len(L.ifds) THEN <<>>
    ELSE JpegBytes(k, L.ifds[k].len) \o AllJpegBytes(L, k + 1)

FullBytes(L) ==
    (IF L.magic = "LE" THEN TIFF_MAGIC_LE
     ELSE IF L.magic = "BE" THEN TIFF_MAGIC_BE ELSE <<73, 73, 43, 0>>)
    \o enc_u32(L.le, IF Len(L.ifds) = 0 THEN 0 ELSE 8)
    \o AllIfdBytes(L, 1) \o AllJpegBytes(L, 1)

\* the file's bytes: the layout's bytes, cut to L.cut bytes when L.cut >= 0
Encode(L) ==
    LET full == FullBytes(L)
    IN  IF L.cut >= 0 /\ L.cut < Len(full) THEN SubSeq(full, 1, L.cut) ELSE full

Shapes ==
    { <<"ORI", "OFF", "LEN">>, <<"OFF", "ORI", "LEN">>, <<"OFF", "LEN", "ORI">>,
      <<"LEN", "OFF", "ORI">>, <<"LEN", "ORI", "OFF">>, <<"ORI", "LEN", "OFF">>,
      <<"OFF", "LEN">>, <<"ORI">>, <<"X", "OFF">> }

Lens == {0, 1, 2, 5}

\* the shapes the IFDs of a chain of two or more are drawn from
ChainShapes ==
    { <<"ORI", "OFF", "LEN">>, <<"OFF", "LEN", "ORI">>, <<"LEN", "OFF">>, <<"ORI">> }

\* the IFD chains: one IFD of any shape, or 2..MaxIFDs IFDs of chain shapes
Chains ==
    [1..1 -> [shape : Shapes, len : Lens]]
    \cup UNION { [1..n -> [shape : ChainShapes, len : Lens]] : n \in 2..MaxIFDs }

\* well-formed containers: every chain, in either byte order
WellFormed ==
    { [le |-> le, magic |-> IF le THEN "LE" ELSE "BE", ifds |-> ifds,
       last_next |-> 0, cut |-> -1] :
        le \in BOOLEAN, ifds \in Chains }

\* the container the malformed inputs are derived from
BaseLayout(le) ==
    [le |-> le, magic |-> IF le THEN "LE" ELSE "BE",
     ifds |-> << [shape |-> <<"ORI", "OFF", "LEN">>, len |-> 3],
                 [shape |-> <<"OFF", "LEN">>, len |-> 5] >>,
     last_next |-> 0, cut |-> -1]

\* malformed containers: every prefix of the base container, a bad magic,
\* no IFD at all, one empty IFD whose next-IFD field is its own offset, and
\* a last next-IFD field holding an arbitrary offset
Malformed ==
    { [BaseLayout(le) EXCEPT !.cut = c] :
        le \in BOOLEAN, c \in 0..Len(FullBytes(BaseLayout(TRUE))) }
    \cup { [BaseLayout(le) EXCEPT !.magic = "bad"] : le \in BOOLEAN }
    \cup { [BaseLayout(le) EXCEPT !.ifds = <<>>] : le \in BOOLEAN }
    \cup { [BaseLayout(le) EXCEPT !.ifds = << [shape |-> <<>>, len |-> 0] >>,
                                  !.last_next = 8] : le \in BOOLEAN }
    \cup { [BaseLayout(le) EXCEPT !.last_next = x] :
             le \in BOOLEAN, x \in {IfdOff(BaseLayout(TRUE), 1), IfdOff(BaseLayout(TRUE), 2), 36, 83, 200} }

Layouts == WellFormed \cup Malformed

(***************************************************************************)
(* State.                                                                  *)
(***************************************************************************)
VARIABLES
    \* process_file on one input (SpecFile)
    layout,           \* the container the input file was generated from
    raw_buf,          \* the mapped input file
    pc,               \* where process_file stands
    is_le,            \* the byte order fixed by the magic
    next_ifd_offset,  \* the walker's loop variable
    largest_jpeg,     \* the walker's running best, then jpeg_info
    iters,            \* loop iterations of the walker so far
    visited,          \* the IFD offsets the walker has been at
    result,           \* process_file's result: "" while running
    jpeg_buf,         \* the slice extract_jpeg returned
    out_file,         \* the destination file: None, or Some(its bytes)
    \* the batch: process_directory and main (Spec)
    transfers,        \* args.transfers, the semaphore's size
    entries,          \* the discovered files, in the order of the task list
    spawned,          \* how many tasks the for loop at line 281 has spawned
    tpc,              \* tpc[t]: where task t stands
    tresult,          \* tresult[t]: the value task t's future returned
    semaphore,        \* the permits available
    join_idx,         \* the task the loop at line 298 awaits next
    pd_result,        \* process_directory's result: "" while running
    main_pc,          \* "running", then "exited"
    exit_code,        \* the process's exit status
    progress,         \* progress_bar's position
    errlog,           \* the tasks whose "Error processing file" line is out
    \* the directories and files the batch works on
    tree,             \* the files under the input directory
    ext_arg,          \* args.extension
    dir_queue,        \* the directories process_directory has yet to read
    out_dirs,         \* the directories that exist under the output directory
    fs,               \* the files under the output directory, with their bytes
    run,              \* 1 in the first run of the program, 2 in the second
    fs_run1           \* fs as the first run left it

fileVars == <<layout, raw_buf, pc, is_le, next_ifd_offset, largest_jpeg, iters, visited, result, jpeg_buf, out_file>>

\* what no step of a task or of the join loop changes
scanVars == <<tree, ext_arg, dir_queue, out_dirs, run, fs_run1>>

batchVars == <<transfers, entries, spawned, tpc, tresult, semaphore, join_idx, pd_result, main_pc, exit_code, progress, errlog, scanVars, fs>>

vars == <<fileVars, batchVars>>

\* the file variables while the batch specification runs, and the batch
\* variables while the file specification runs
IdleFile ==
    /\ layout = BaseLayout(TRUE)
    /\ raw_buf = <<>>
    /\ pc = "idle"
    /\ is_le = FALSE
    /\ next_ifd_offset = 0
    /\ largest_jpeg = DefaultJpegInfo
    /\ iters = 0
    /\ visited = {}
    /\ result = ""
    /\ jpeg_buf = <<>>
    /\ out_file = None

IdleBatch ==
    /\ transfers = 0
    /\ entries = <<>>
    /\ spawned = 0
    /\ tpc = <<>>
    /\ tresult = <<>>
    /\ semaphore = 0
    /\ join_idx = 1
    /\ pd_result = ""
    /\ main_pc = "idle"
    /\ exit_code = 0
    /\ progress = 0
    /\ errlog = {}
    /\ tree = {}
    /\ ext_arg = None
    /\ dir_queue = <<>>
    /\ out_dirs = {}
    /\ fs = <<>>
    /\ run = 1
    /\ fs_run1 = <<>>

\* what the destination may hold before process_file runs
OldOutputs == {None, Some(<<1, 2, 3>>)}

InitFile ==
    /\ IdleBatch
    /\ layout \in Layouts
    /\ raw_buf = Encode(layout)
    /\ pc = "open"
    /\ is_le = FALSE
    /\ next_ifd_offset = 0
    /\ largest_jpeg = DefaultJpegInfo
    /\ iters = 0
    /\ visited = {}
    /\ result = ""
    /\ jpeg_buf = <<>>
    /\ out_file \in OldOutputs

\* process_file returns Err(e) or panics: nothing after it runs
Fail(e) ==
    /\ result' = e
    /\ pc' = "done"

\* a process_file that creates the destination before it opens the input
OpenFile_CreatesFirst ==
    /\ pc = "open"
    /\ out_file' = Some(<<>>)
    /\ \E io_ok \in BOOLEAN :
          IF io_ok
          THEN pc' = "header" /\ result' = result
          ELSE Fail("io error")
    /\ UNCHANGED <<batchVars, layout, raw_buf, is_le, next_ifd_offset, largest_jpeg, iters, visited, jpeg_buf>>

\* lines 212-213: File::open and mmap_raw, either of which may fail
OpenFile ==
    /\ pc = "open"
    /\ \E io_ok \in BOOLEAN :
          IF io_ok
          THEN pc' = "header" /\ result' = result
          ELSE Fail("io error")
    /\ UNCHANGED <<batchVars, layout, raw_buf, is_le, next_ifd_offset, largest_jpeg, iters, visited, jpeg_buf, out_file>>

\* lines 84-105: the header checks, the byte order, the first IFD offset
WalkHeader ==
    /\ pc = "header"
    /\ IF HeaderError(raw_buf) # ""
       THEN /\ Fail(HeaderError(raw_buf))
            /\ UNCHANGED <<is_le, next_ifd_offset, largest_jpeg>>
       ELSE /\ is_le' = (Slice(raw_buf, 0, 4) = TIFF_MAGIC_LE)
            /\ next_ifd_offset' = read_u32(is_le', Slice(raw_buf, 4, 8))
            /\ largest_jpeg' = DefaultJpegInfo
            /\ pc' = "loop"
            /\ result' = result
    /\ UNCHANGED <<batchVars, layout, raw_buf, iters, visited, jpeg_buf, out_file>>

\* lines 107-155: one iteration of the while loop.  The model follows at
\* most MaxIter iterations of one call.
WalkLoop ==
    /\ pc = "loop"
    /\ next_ifd_offset # 0
    /\ iters < MaxIter
    /\ LET r == WalkIFD(is_le, raw_buf, next_ifd_offset, largest_jpeg)
       IN  /\ iters' = iters + 1
           /\ visited' = visited \cup {next_ifd_offset}
           /\ largest_jpeg' = r.largest
           /\ IF r.err # ""
              THEN Fail(r.err) /\ next_ifd_offset' = next_ifd_offset
              ELSE /\ next_ifd_offset' = r.next
                   /\ pc' = pc
                   /\ result' = result
    /\ UNCHANGED <<batchVars, layout, raw_buf, is_le, jpeg_buf, out_file>>

\* lines 157-166: the loop has ended; the two final checks
WalkFinish ==
    /\ pc = "loop"
    /\ next_ifd_offset = 0
    /\ IF FinalError(largest_jpeg, raw_buf) # ""
       THEN Fail(FinalError(largest_jpeg, raw_buf))
       ELSE pc' = "extract" /\ result' = result
    /\ UNCHANGED <<batchVars, layout, raw_buf, is_le, next_ifd_offset, largest_jpeg, iters, visited, jpeg_buf, out_file>>

\* lines 169-172 and 215: extract_jpeg.  The slice panics when the range
\* is not inside the buffer.
ExtractJpeg ==
    /\ pc = "extract"
    /\ IF largest_jpeg.offset + largest_jpeg.length <= Len(raw_buf)
       THEN /\ jpeg_buf' = Slice(raw_buf, largest_jpeg.offset,
                                 largest_jpeg.offset + largest_jpeg.length)
            /\ pc' = "create"
            /\ result' = result
       ELSE Fail("panic") /\ jpeg_buf' = jpeg_buf
    /\ UNCHANGED <<batchVars, layout, raw_buf, is_le, next_ifd_offset, largest_jpeg, iters, visited, out_file>>

\* line 199: File::create makes the destination, or empties it
CreateOutput ==
    /\ pc = "create"
    /\ out_file' = Some(<<>>)
    /\ pc' = "soi"
    /\ UNCHANGED <<batchVars, layout, raw_buf, is_le, next_ifd_offset, largest_jpeg, iters, visited, result, jpeg_buf>>

\* line 200
WriteSOI ==
    /\ pc = "soi"
    /\ out_file' = Some(out_file[1] \o SOI)
    /\ pc' = "app1"
    /\ UNCHANGED <<batchVars, layout, raw_buf, is_le, next_ifd_offset, largest_jpeg, iters, visited, result, jpeg_buf>>

\* lines 201-204
WriteApp1 ==
    /\ pc = "app1"
    /\ out_file' = Some(out_file[1] \o App1Part(largest_jpeg))
    /\ pc' = "body"
    /\ UNCHANGED <<batchVars, layout, raw_buf, is_le, next_ifd_offset, largest_jpeg, iters, visited, result, jpeg_buf>>

\* lines 205-206 and 219
WriteBody ==
    /\ pc = "body"
    /\ IF BodyPanics(jpeg_buf)
       THEN Fail("panic") /\ out_file' = out_file
       ELSE /\ out_file' = Some(out_file[1] \o BodyPart(jpeg_buf))
            /\ result' = "ok"
            /\ pc' = "done"
    /\ UNCHANGED <<batchVars, layout, raw_buf, is_le, next_ifd_offset, largest_jpeg, iters, visited, jpeg_buf>>

NextFile ==
    \/ OpenFile
    \/ WalkHeader
    \/ WalkLoop
    \/ WalkFinish
    \/ ExtractJpeg
    \/ CreateOutput
    \/ WriteSOI
    \/ WriteApp1
    \/ WriteBody

SpecFile == InitFile /\ [][NextFile]_vars

(***************************************************************************)
(* find_largest_embedded_jpeg as a function of the buffer, for the batch:  *)
(* the loop of lines 107-155 followed for MaxIter iterations.  A chain     *)
(* that has not ended by then is one the loop never leaves.                *)
(***************************************************************************)
RECURSIVE WalkFrom(_, _, _, _, _)
WalkFrom(le, buf, off, largest, fuel) ==
    IF off = 0
    THEN [status |-> IF FinalError(largest, buf) = "" THEN "ok" ELSE "err",
          err |-> FinalError(largest, buf), jpeg |-> largest]
    ELSE IF fuel = 0
    THEN [status |-> "loops", err |-> "", jpeg |-> largest]
    ELSE LET r == WalkIFD(le, buf, off, largest)
         IN  IF r.err # ""
             THEN [status |-> "err", err |-> r.err, jpeg |-> r.largest]
             ELSE WalkFrom(le, buf, r.next, r.largest, fuel - 1)

find_largest_embedded_jpeg(buf) ==
    IF HeaderError(buf) # ""
    THEN [status |-> "err", err |-> HeaderError(buf), jpeg |-> DefaultJpegInfo]
    ELSE LET le == (Slice(buf, 0, 4) = TIFF_MAGIC_LE)
         IN  WalkFrom(le, buf, read_u32(le, Slice(buf, 4, 8)), DefaultJpegInfo, MaxIter)

(***************************************************************************)
(* Paths.  A file under the input directory is a record: dir, the names    *)
(* of the directories from the input directory down to it; stem and ext,   *)
(* its name (ext is an Option: a name may have no extension; an extension  *)
(* is a sequence of characters); kind, its content.  A file under the      *)
(* output directory is a record of dir, stem and ext.                      *)
(***************************************************************************)
\* the input directory itself, and the output directory itself
Root == <<>>

\* lines 235-238: the built-in list
BuiltInExtensions ==
    { <<"a", "r", "w">>, <<"c", "r", "2">>, <<"c", "r", "w">>, <<"d", "n", "g">>,
      <<"e", "r", "f">>, <<"k", "d", "c">>, <<"m", "e", "f">>, <<"m", "r", "w">>,
      <<"n", "e", "f">>, <<"n", "r", "w">>, <<"o", "r", "f">>, <<"p", "e", "f">>,
      <<"r", "a", "f">>, <<"r", "a", "w">>, <<"r", "w", "2">>, <<"r", "w", "l">>,
      <<"s", "r", "2">>, <<"s", "r", "f">>, <<"s", "r", "w">>, <<"x", "3", "f">> }

LowerChars ==
    <<"a", "b", "c", "d", "e", "f", "g", "h", "i", "j", "k", "l", "m",
      "n", "o", "p", "q", "r", "s", "t", "u", "v", "w", "x", "y", "z">>
UpperChars ==
    <<"A", "B", "C", "D", "E", "F", "G", "H", "I", "J", "K", "L", "M",
      "N", "O", "P", "Q", "R", "S", "T", "U", "V", "W", "X", "Y", "Z">>

\* str::to_uppercase on ASCII: a lower-case letter becomes its capital,
\* every other character stays
UpperChar(c) ==
    IF \E i \in DOMAIN LowerChars : LowerChars[i] = c
    THEN UpperChars[CHOOSE i \in DOMAIN LowerChars : LowerChars[i] = c]
    ELSE c
to_uppercase(ext) == [i \in 1..Len(ext) |-> UpperChar(ext[i])]

\* lines 239-240: each built-in extension as written and in capitals
BuiltInBothCases ==
    BuiltInExtensions \cup { to_uppercase(e) : e \in BuiltInExtensions }

\* lines 235-242: the built-in extensions in both cases, and the extension
\* of --extension as given
valid_extensions_LowerOnly(ext) ==
    BuiltInExtensions \cup (IF ext = None THEN {} ELSE {ext[1]})
valid_extensions(ext) ==
    BuiltInBothCases \cup (IF ext = None THEN {} ELSE {ext[1]})

\* lines 255-257: path.extension().is_some_and(|ext| valid_extensions.contains(ext))
Matches(f, ext) == f.ext # None /\ f.ext[1] \in valid_extensions(ext)

\* lines 216-217: out_dir.join(relative_path), then set_extension("jpg")
Dest(f) == [dir |-> f.dir, stem |-> f.stem, ext |-> Some(<<"j", "p", "g">>)]

\* lines 264-268: create_dir_all(out_dir.join(relative_dir)) when the
\* directory held a matching file: the directory and all its ancestors
CreatedDirs_None(found_raw, relative_dir, ds) == ds
CreatedDirs(found_raw, relative_dir, ds) ==
    IF found_raw
    THEN ds \cup { SubSeq(relative_dir, 1, n) : n \in 0..Len(relative_dir) }
    ELSE ds

\* a write of bytes at position pos of a file holding content: the file
\* grows as far as the write reaches, with zeros in a gap
WriteAt(content, pos, bytes) ==
    LET end == IF pos + Len(bytes) > Len(content)
               THEN pos + Len(bytes) ELSE Len(content)
    IN  [i \in 1..end |->
            IF i > pos /\ i <= pos + Len(bytes) THEN bytes[i - pos]
            ELSE IF i <= Len(content) THEN content[i] ELSE 0]

\* the output directory with no file in it
EmptyFS == [d \in {} |-> <<>>]

\* every order in which the members of a finite set can be met
Orders(S) ==
    { s \in [1..Cardinality(S) -> S] :
        \A i, j \in 1..Cardinality(S) : i # j => s[i] # s[j] }

(***************************************************************************)
(* The batch.  The discovered files are of five kinds of content.          *)
(***************************************************************************)
Kinds == {"good", "bad", "tiny", "cyclic"}

KindLayout(kind) ==
    IF kind = "good" THEN BaseLayout(TRUE)
    ELSE IF kind = "bad" THEN [BaseLayout(TRUE) EXCEPT !.magic = "bad"]
    ELSE IF kind = "tiny"
    THEN [BaseLayout(FALSE) EXCEPT !.ifds = << [shape |-> <<"OFF", "LEN">>, len |-> 1] >>]
    ELSE IF kind = "plain"
    THEN [BaseLayout(TRUE) EXCEPT !.ifds = << [shape |-> <<"OFF", "LEN">>, len |-> 3] >>]
    ELSE [BaseLayout(TRUE) EXCEPT !.ifds = << [shape |-> <<>>, len |-> 0] >>,
                                  !.last_next = 8]

\* the bytes of a file of each kind, and what the walker makes of them
KindBytes == [k \in Kinds \cup {"plain"} |-> Encode(KindLayout(k))]
KindWalk == [k \in Kinds \cup {"plain"} |-> find_largest_embedded_jpeg(KindBytes[k])]

\* the bytes of the file task t works on
FileBytes(t) == KindBytes[entries[t].kind]
\* line 214 in task t
Walked(t) == KindWalk[entries[t].kind]

Tasks == 1..Len(entries)

\* the files of a batch that holds n files in the input directory itself
FlatEntries(kinds) ==
    [t \in DOMAIN kinds |->
        [dir |-> Root, stem |-> t, ext |-> Some(<<"c", "r", "2">>), kind |-> kinds[t]]]

\* The state at line 278: the scan of a directory holding the files of
\* entries, and no subdirectory, is over; the output directory is empty.
Init ==
    /\ IdleFile
    /\ transfers \in 0..MaxTransfers
    /\ entries \in { FlatEntries(kinds) : kinds \in UNION { [1..n -> Kinds] : n \in 0..NumFiles } }
    /\ spawned = 0
    /\ tpc = [t \in Tasks |-> "unspawned"]
    /\ tresult = [t \in Tasks |-> ""]
    /\ semaphore = transfers
    /\ join_idx = 1
    /\ pd_result = ""
    /\ main_pc = "running"
    /\ exit_code = 0
    /\ progress = 0
    /\ errlog = {}
    /\ tree = { entries[t] : t \in Tasks }
    /\ ext_arg = None
    /\ dir_queue = <<>>
    /\ out_dirs = {Root}
    /\ fs = EmptyFS
    /\ run = 1
    /\ fs_run1 = EmptyFS

\* the runtime polls tasks while main has not returned
Running(t) == main_pc = "running" /\ t <= spawned

\* lines 281-296: the for loop spawns the next task
Spawn ==
    /\ main_pc = "running"
    /\ pd_result = ""
    /\ spawned < Len(entries)
    /\ spawned' = spawned + 1
    /\ tpc' = [tpc EXCEPT ![spawned + 1] = "spawned"]
    /\ UNCHANGED <<fileVars, scanVars, fs, transfers, entries, tresult, semaphore, join_idx, pd_result, main_pc, exit_code, progress, errlog>>

\* line 286: semaphore.acquire_owned().await
Acquire_NoWait(t) ==
    /\ Running(t)
    /\ tpc[t] = "spawned"
    /\ semaphore' = semaphore - 1
    /\ tpc' = [tpc EXCEPT ![t] = "open"]
    /\ UNCHANGED <<fileVars, scanVars, fs, transfers, entries, spawned, tresult, join_idx, pd_result, main_pc, exit_code, progress, errlog>>
Acquire(t) ==
    /\ Running(t)
    /\ tpc[t] = "spawned"
    /\ semaphore > 0
    /\ semaphore' = semaphore - 1
    /\ tpc' = [tpc EXCEPT ![t] = "open"]
    /\ UNCHANGED <<fileVars, scanVars, fs, transfers, entries, spawned, tresult, join_idx, pd_result, main_pc, exit_code, progress, errlog>>

\* lines 212-214: open, map and walk the input.  An error ends
\* process_file; a walk that never ends keeps the task where it is.
TaskParse(t) ==
    /\ Running(t)
    /\ tpc[t] = "open"
    /\ LET w == Walked(t)
       IN  IF w.status = "err"
           THEN tpc' = [tpc EXCEPT ![t] = "finished"]
                /\ tresult' = [tresult EXCEPT ![t] = "err"]
           ELSE IF w.status = "loops"
           THEN tpc' = [tpc EXCEPT ![t] = "hung"] /\ tresult' = tresult
           ELSE tpc' = [tpc EXCEPT ![t] = "create"] /\ tresult' = tresult
    /\ UNCHANGED <<fileVars, scanVars, fs, transfers, entries, spawned, semaphore, join_idx, pd_result, main_pc, exit_code, progress, errlog>>

\* lines 199-204: File::create, the SOI, the APP1 block: three awaits.
\* File::create makes the destination or empties it, and fails when the
\* destination's directory does not exist; each write goes to the position
\* this task's file handle has reached.
TaskWriteHead(t) ==
    /\ Running(t)
    /\ tpc[t] \in {"create", "soi", "app1"}
    /\ LET d == Dest(entries[t])
       IN  IF tpc[t] = "create"
           THEN IF d.dir \in out_dirs
                THEN /\ fs' = (d :> <<>>) @@ fs
                     /\ tpc' = [tpc EXCEPT ![t] = "soi"]
                     /\ tresult' = tresult
                ELSE /\ fs' = fs
                     /\ tpc' = [tpc EXCEPT ![t] = "finished"]
                     /\ tresult' = [tresult EXCEPT ![t] = "err"]
           ELSE IF tpc[t] = "soi"
           THEN /\ fs' = [fs EXCEPT ![d] = WriteAt(@, 0, SOI)]
                /\ tpc' = [tpc EXCEPT ![t] = "app1"]
                /\ tresult' = tresult
           ELSE /\ fs' = [fs EXCEPT ![d] = WriteAt(@, Len(SOI), App1Part(Walked(t).jpeg))]
                /\ tpc' = [tpc EXCEPT ![t] = "body"]
                /\ tresult' = tresult
    /\ UNCHANGED <<fileVars, scanVars, transfers, entries, spawned, semaphore, join_idx, pd_result, main_pc, exit_code, progress, errlog>>

\* lines 205-206: the body.  The slice at line 205 panics on a JPEG shorter
\* than 2 bytes: the unwinding drops the permit and the task ends with a
\* JoinError, past lines 288-293.
TaskWriteBody(t) ==
    /\ Running(t)
    /\ tpc[t] = "body"
    /\ LET w == Walked(t)
           j == Slice(FileBytes(t), w.jpeg.offset, w.jpeg.offset + w.jpeg.length)
           d == Dest(entries[t])
       IN  IF BodyPanics(j)
           THEN /\ tpc' = [tpc EXCEPT ![t] = "panicked"]
                /\ tresult' = [tresult EXCEPT ![t] = "panic"]
                /\ semaphore' = semaphore + 1
                /\ fs' = fs
           ELSE /\ tpc' = [tpc EXCEPT ![t] = "finished"]
                /\ tresult' = [tresult EXCEPT ![t] = "ok"]
                /\ semaphore' = semaphore
                /\ fs' = [fs EXCEPT ![d] =
                            WriteAt(@, Len(SOI) + Len(App1Part(w.jpeg)), BodyPart(j))]
    /\ UNCHANGED <<fileVars, scanVars, transfers, entries, spawned, join_idx, pd_result, main_pc, exit_code, progress, errlog>>

\* line 288: drop(permit)
Release(t) ==
    /\ Running(t)
    /\ tpc[t] = "finished"
    /\ semaphore' = semaphore + 1
    /\ tpc' = [tpc EXCEPT ![t] = "released"]
    /\ UNCHANGED <<fileVars, scanVars, fs, transfers, entries, spawned, tresult, join_idx, pd_result, main_pc, exit_code, progress, errlog>>

\* lines 289-293: progress_bar.inc(1), the error line, the task's result
Report(t) ==
    /\ Running(t)
    /\ tpc[t] = "released"
    /\ progress' = progress + 1
    /\ errlog' = IF tresult[t] = "err" THEN errlog \cup {t} ELSE errlog
    /\ tpc' = [tpc EXCEPT ![t] = "done"]
    /\ UNCHANGED <<fileVars, scanVars, fs, transfers, entries, spawned, tresult, semaphore, join_idx, pd_result, main_pc, exit_code>>

\* line 299: task.await?? is an error when the task panicked (the outer ?)
\* or returned Err (the inner ?)
AwaitResult_OuterOnly(t) == IF tresult[t] = "panic" THEN "err" ELSE "ok"
AwaitResult(t) == IF tresult[t] \in {"panic", "err"} THEN "err" ELSE "ok"

\* lines 298-300: the join loop awaits the tasks in list order; the first
\* error returns from process_directory
Join ==
    /\ main_pc = "running"
    /\ pd_result = ""
    /\ spawned = Len(entries)
    /\ join_idx <= Len(entries)
    /\ tpc[join_idx] \in {"done", "panicked"}
    /\ IF AwaitResult(join_idx) = "err"
       THEN pd_result' = "err" /\ join_idx' = join_idx
       ELSE pd_result' = pd_result /\ join_idx' = join_idx + 1
    /\ UNCHANGED <<fileVars, scanVars, fs, transfers, entries, spawned, tpc, tresult, semaphore, main_pc, exit_code, progress, errlog>>

\* lines 302-304: every task was awaited
Finish ==
    /\ main_pc = "running"
    /\ pd_result = ""
    /\ spawned = Len(entries)
    /\ join_idx = Len(entries) + 1
    /\ pd_result' = "ok"
    /\ UNCHANGED <<fileVars, scanVars, fs, transfers, entries, spawned, tpc, tresult, semaphore, join_idx, main_pc, exit_code, progress, errlog>>

\* the tasks whose future owns a permit: from acquire_owned (line 286) to
\* drop(permit) (line 288)
HoldsPermit(t) == tpc[t] \in {"open", "create", "soi", "app1", "body", "finished", "hung"}

\* lines 315-318: main returns process_directory's result.  Returning from
\* #[tokio::main] drops the runtime, which drops every task that has not
\* ended, and with the task the permit it owns; a task inside a loop that
\* never yields stays there.
MainExit ==
    /\ main_pc = "running"
    /\ pd_result # ""
    /\ main_pc' = "exited"
    /\ exit_code' = IF pd_result = "ok" THEN 0 ELSE 1
    /\ tpc' = [t \in Tasks |->
                 IF tpc[t] \in {"done", "panicked", "hung"} THEN tpc[t]
                 ELSE "cancelled"]
    /\ semaphore' = semaphore
          + Cardinality({ t \in Tasks : HoldsPermit(t) /\ tpc[t] # "hung" })
    /\ UNCHANGED <<fileVars, scanVars, fs, transfers, entries, spawned, tresult, join_idx, pd_result, progress, errlog>>

Next ==
    \/ Spawn
    \/ \E t \in Tasks : Acquire(t)
    \/ \E t \in Tasks : TaskParse(t)
    \/ \E t \in Tasks : TaskWriteHead(t)
    \/ \E t \in Tasks : TaskWriteBody(t)
    \/ \E t \in Tasks : Release(t)
    \/ \E t \in Tasks : Report(t)
    \/ Join
    \/ Finish
    \/ MainExit

Spec == Init /\ [][Next]_vars

(***************************************************************************)
(* The whole program on a directory tree, run twice: main creates the      *)
(* output directory, process_directory scans the input directory, then     *)
(* the batch runs as above; the second run starts on what the first left.  *)
(***************************************************************************)
\* the most files an input tree holds
MaxTreeFiles == 2

\* the files the input trees are made of
Catalog ==
    { [dir |-> Root, stem |-> 1, ext |-> Some(<<"c", "r", "2">>), kind |-> "good"],
      [dir |-> Root, stem |-> 1, ext |-> Some(<<"n", "e", "f">>), kind |-> "plain"],
      [dir |-> Root, stem |-> 2, ext |-> Some(<<"d", "n", "g">>), kind |-> "bad"],
      [dir |-> <<"a", "b">>, stem |-> 3, ext |-> Some(<<"C", "R", "2">>), kind |-> "good"],
      [dir |-> <<"a">>, stem |-> 4, ext |-> Some(<<"C", "r", "2">>), kind |-> "plain"],
      [dir |-> <<"a">>, stem |-> 5, ext |-> Some(<<"t", "x", "t">>), kind |-> "bad"],
      [dir |-> Root, stem |-> 6, ext |-> None, kind |-> "good"] }

Trees == { T \in SUBSET Catalog : Cardinality(T) <= MaxTreeFiles }

\* the values of --extension: not given, or a spelling in mixed case
ExtArgs == { None, Some(<<"C", "r", "2">>) }

\* the files and the subdirectories read_dir(d) yields
FilesIn(d) == { f \in tree : f.dir = d }
SubdirsOf(d) ==
    { SubSeq(f.dir, 1, Len(d) + 1) :
        f \in { g \in tree : Len(g.dir) > Len(d) /\ SubSeq(g.dir, 1, Len(d)) = d } }

\* The state at line 315: main has created the output directory, and
\* process_directory starts with the input directory in its queue.
InitTree ==
    /\ IdleFile
    /\ tree \in Trees
    /\ ext_arg \in ExtArgs
    /\ transfers \in 1..MaxTransfers
    /\ entries = <<>>
    /\ dir_queue = <<Root>>
    /\ out_dirs = {Root}
    /\ fs = EmptyFS
    /\ run = 1
    /\ fs_run1 = EmptyFS
    /\ spawned = 0
    /\ tpc = <<>>
    /\ tresult = <<>>
    /\ semaphore = 0
    /\ join_idx = 1
    /\ pd_result = ""
    /\ main_pc = "scanning"
    /\ exit_code = 0
    /\ progress = 0
    /\ errlog = {}

\* lines 247-269: one iteration of the while loop.  pop takes the
\* directory pushed last; read_dir yields its entries in an order of the
\* file system's choosing; a subdirectory is pushed, a file with a valid
\* extension is appended to entries; the mirrored directory is created
\* when a file was appended.
ScanDir ==
    /\ main_pc = "scanning"
    /\ dir_queue # <<>>
    /\ LET current_dir == dir_queue[Len(dir_queue)]
           raw == { f \in FilesIn(current_dir) : Matches(f, ext_arg) }
       IN  /\ \E files \in Orders(raw), dirs \in Orders(SubdirsOf(current_dir)) :
                 /\ entries' = entries \o files
                 /\ dir_queue' = SubSeq(dir_queue, 1, Len(dir_queue) - 1) \o dirs
           /\ out_dirs' = CreatedDirs(raw # {}, current_dir, out_dirs)
    /\ UNCHANGED <<fileVars, fs, tree, ext_arg, run, fs_run1, transfers, spawned, tpc, tresult, semaphore, join_idx, pd_result, main_pc, exit_code, progress, errlog>>

\* lines 271-279: the queue is empty; the progress bar, the semaphore, the
\* empty task list
ScanDone ==
    /\ main_pc = "scanning"
    /\ dir_queue = <<>>
    /\ main_pc' = "running"
    /\ semaphore' = transfers
    /\ tpc' = [t \in Tasks |-> "unspawned"]
    /\ tresult' = [t \in Tasks |-> ""]
    /\ UNCHANGED <<fileVars, scanVars, fs, transfers, entries, spawned, join_idx, pd_result, exit_code, progress, errlog>>

\* The program has ended and is started again with the same arguments on
\* the same input tree: a new process, the output directory as it is.
Rerun ==
    /\ main_pc = "exited"
    /\ run = 1
    /\ run' = 2
    /\ fs_run1' = fs
    /\ entries' = <<>>
    /\ dir_queue' = <<Root>>
    /\ spawned' = 0
    /\ tpc' = <<>>
    /\ tresult' = <<>>
    /\ semaphore' = 0
    /\ join_idx' = 1
    /\ pd_result' = ""
    /\ main_pc' = "scanning"
    /\ exit_code' = 0
    /\ progress' = 0
    /\ errlog' = {}
    /\ UNCHANGED <<fileVars, fs, tree, ext_arg, out_dirs, transfers>>

NextTree ==
    \/ ScanDir
    \/ ScanDone
    \/ Spawn
    \/ \E t \in Tasks : Acquire(t)
    \/ \E t \in Tasks : TaskParse(t)
    \/ \E t \in Tasks : TaskWriteHead(t)
    \/ \E t \in Tasks : TaskWriteBody(t)
    \/ \E t \in Tasks : Release(t)
    \/ \E t \in Tasks : Report(t)
    \/ Join
    \/ Finish
    \/ MainExit
    \/ Rerun

SpecTree == InitTree /\ [][NextTree]_vars

(***************************************************************************)
(* Properties of process_file on one input (SpecFile).                     *)
(***************************************************************************)
WalkerErrors ==
    { "Not enough data for TIFF header", "Not a valid TIFF file",
      "Invalid IFD offset", "Invalid number of IFD entries",
      "Invalid next IFD offset", "No JPEG data found",
      "JPEG data exceeds file size" }

\* find_largest_embedded_jpeg has returned Ok / Err
WalkerOk ==
    \/ pc \in {"extract", "create", "soi", "app1", "body"}
    \/ pc = "done" /\ result \in {"ok", "panic"}
WalkerErr == pc = "done" /\ result \in WalkerErrors
WalkerEnded == WalkerOk \/ WalkerErr

\* the input is a complete container with a 0-terminated IFD chain
WellFormedInput ==
    /\ layout.magic # "bad"
    /\ layout.cut = -1
    /\ layout.last_next = 0
    /\ Len(layout.ifds) >= 1

HasTag(ifd, tag) == \E i \in 1..Len(ifd.shape) : ifd.shape[i] = tag
PosOf(ifd, tag) == CHOOSE i \in 1..Len(ifd.shape) : ifd.shape[i] = tag

\* the destination has not been created, emptied or written
OutputUntouched == out_file \in OldOutputs

\* C5: the walker's loop runs at most once per IFD of the buffer: the
\* number of iterations never exceeds the number of distinct IFD offsets
\* it has been at.
C5_IterationsBounded == iters <= Cardinality(visited)

\* the case of C6: several IFDs, each with both entries, lengths all different
C6_Pre ==
    /\ WellFormedInput
    /\ Len(layout.ifds) >= 2
    /\ \A k \in 1..Len(layout.ifds) :
          HasTag(layout.ifds[k], "OFF") /\ HasTag(layout.ifds[k], "LEN")
    /\ \A j, k \in 1..Len(layout.ifds) :
          j # k => layout.ifds[j].len # layout.ifds[k].len
C6_Greatest ==
    CHOOSE k \in 1..Len(layout.ifds) :
        \A j \in 1..Len(layout.ifds) : layout.ifds[j].len <= layout.ifds[k].len

\* C6: in a well-formed buffer of several IFDs, each with a JPEG-offset and
\* a JPEG-length entry and with pairwise different lengths, the walker
\* returns the offset and length of the IFD with the greatest length,
\* wherever that IFD stands in the chain.
C6_LargestWins ==
    (C6_Pre /\ WalkerEnded) =>
        /\ WalkerOk
        /\ largest_jpeg.offset = JpegOff(layout, C6_Greatest)
        /\ largest_jpeg.length = layout.ifds[C6_Greatest].len
C6_Witness ==
    /\ C6_Pre
    /\ C6_Greatest = 1
    /\ pc = "done"
    /\ result = "ok"

\* the case of C7: one IFD holding a JPEG-offset, a JPEG-length (not 0) and
\* an Orientation entry
C7_Pre ==
    /\ WellFormedInput
    /\ Len(layout.ifds) = 1
    /\ Len(layout.ifds[1].shape) = 3
    /\ HasTag(layout.ifds[1], "OFF")
    /\ HasTag(layout.ifds[1], "LEN")
    /\ HasTag(layout.ifds[1], "ORI")
    /\ layout.ifds[1].len > 0
C7_OrientationLast == PosOf(layout.ifds[1], "ORI") = 3

\* C7 as claimed: for a well-formed buffer with one IFD holding the three
\* entries, the walker returns exactly the three values, in whatever order
\* the entries appear.
C7_AnyOrder ==
    (C7_Pre /\ WalkerEnded) =>
        /\ WalkerOk
        /\ largest_jpeg = [offset |-> JpegOff(layout, 1),
                           length |-> layout.ifds[1].len,
                           orientation |-> Some(OriOf(1))]
\* C7 as amended: the walker returns the offset and the length in whatever
\* order the entries appear; the orientation is Some(value) when the
\* Orientation entry stands before the later of the two JPEG entries, and
\* None when it stands after both.
C7_OrientationBeforeBreak ==
    (C7_Pre /\ WalkerEnded) =>
        /\ WalkerOk
        /\ largest_jpeg.offset = JpegOff(layout, 1)
        /\ largest_jpeg.length = layout.ifds[1].len
        /\ largest_jpeg.orientation =
              IF C7_OrientationLast THEN None ELSE Some(OriOf(1))
C7_Witness ==
    /\ C7_Pre
    /\ ~layout.le
    /\ layout.ifds[1].shape = <<"OFF", "ORI", "LEN">>
    /\ pc = "done"
    /\ result = "ok"
    /\ largest_jpeg.orientation = Some(6)

\* C8: a descriptor the walker returns has length > 0 and
\* offset + length <= the buffer's length, so none out of range reaches
\* extract_jpeg or write_jpeg; when the loop ends with a winning candidate
\* out of range, the result is "JPEG data exceeds file size" and the
\* destination is untouched.
C8_ReturnedInRange ==
    /\ WalkerOk =>
          /\ largest_jpeg.length > 0
          /\ largest_jpeg.offset + largest_jpeg.length <= Len(raw_buf)
    /\ ( /\ pc = "done"
         /\ result \in WalkerErrors
         /\ next_ifd_offset = 0
         /\ largest_jpeg # DefaultJpegInfo
         /\ largest_jpeg.offset + largest_jpeg.length > Len(raw_buf) )
        => /\ result = "JPEG data exceeds file size"
           /\ jpeg_buf = <<>>
           /\ OutputUntouched
C8_Witness ==
    /\ pc = "done"
    /\ result = "JPEG data exceeds file size"
    /\ largest_jpeg.length > 0
    /\ largest_jpeg.offset < Len(raw_buf)

\* the embedded JPEG the returned descriptor names, read from the input
C9_J == Slice(raw_buf, largest_jpeg.offset, largest_jpeg.offset + largest_jpeg.length)
\* the APP1 block for orientation o, byte by byte
ExpectedApp1(o) ==
    <<255, 225, 0, 30, 69, 120, 105, 102, 0, 0, 73, 73, 42, 0, 8, 0, 0, 0,
      1, 0, 18, 1, 3, 0, 1, 0, 0, 0, o % 256, o \div 256, 0, 0>>

C10_J == Slice(raw_buf, largest_jpeg.offset, largest_jpeg.offset + largest_jpeg.length)

\* C10: for an embedded JPEG J that starts with FF D8 and a descriptor with
\* orientation o, the written file is FF D8, the 32-byte APP1 block with o
\* in little-endian, then J[2..]; J's own SOI is not repeated.
C10_OutputLayout ==
    ( /\ pc = "done"
      /\ result = "ok"
      /\ largest_jpeg.orientation # None
      /\ SubSeq(C10_J, 1, 2) = <<255, 216>> )
    => /\ out_file = Some(<<255, 216>>
                          \o ExpectedApp1(largest_jpeg.orientation[1])
                          \o SubSeq(C10_J, 3, Len(C10_J)))
       /\ Len(ExpectedApp1(largest_jpeg.orientation[1])) = 32
       /\ SubSeq(out_file[1], 3, 4) # <<255, 216>>
C10_Witness ==
    /\ pc = "done"
    /\ result = "ok"
    /\ largest_jpeg.orientation = Some(258)
    /\ largest_jpeg.length = 5
    /\ Len(out_file[1]) = 37

\* the IFDs of the input that hold a complete candidate of length > 0
C16_Candidates ==
    { k \in 1..Len(layout.ifds) :
        /\ HasTag(layout.ifds[k], "OFF")
        /\ HasTag(layout.ifds[k], "LEN")
        /\ layout.ifds[k].len > 0 }
\* the entry at which the scan of IFD k stops: the later of its two JPEG entries
C16_StopAt(k) ==
    IF PosOf(layout.ifds[k], "OFF") > PosOf(layout.ifds[k], "LEN")
    THEN PosOf(layout.ifds[k], "OFF")
    ELSE PosOf(layout.ifds[k], "LEN")
\* the orientation the scan of IFD k has captured when it stops
C16_Captured(k) ==
    IF HasTag(layout.ifds[k], "ORI")
       /\ PosOf(layout.ifds[k], "ORI") < C16_StopAt(k)
    THEN Some(OriOf(k))
    ELSE None

\* C16: for a well-formed buffer the returned candidate is the pair of one
\* IFD k, and its orientation is the value of IFD k's own Orientation entry
\* when that entry stands before the later of IFD k's JPEG-offset and
\* JPEG-length entries, and absent otherwise: an Orientation entry after
\* that point, or in another IFD, is never attached.
C16_StopsAtBothEntries ==
    (WellFormedInput /\ WalkerOk) =>
        \E k \in C16_Candidates :
            /\ largest_jpeg.offset = JpegOff(layout, k)
            /\ largest_jpeg.length = layout.ifds[k].len
            /\ largest_jpeg.orientation = C16_Captured(k)
C16_Witness ==
    /\ WellFormedInput
    /\ Len(layout.ifds) = 2
    /\ layout.ifds[1].shape = <<"ORI">>
    /\ layout.ifds[2].shape = <<"OFF", "LEN", "ORI">>
    /\ pc = "done"
    /\ result = "ok"
    /\ largest_jpeg.orientation = None

\* the walker failed inside its loop, at the IFD at next_ifd_offset
C17_FailedInLoop ==
    /\ pc = "done"
    /\ iters >= 1
    /\ next_ifd_offset # 0
    /\ result \notin {"ok", "panic", "io error"}
\* the entry count stored at next_ifd_offset, read in the header's byte order
C17_Count ==
    IF is_le
    THEN raw_buf[next_ifd_offset + 1] + 256 * raw_buf[next_ifd_offset + 2]
    ELSE raw_buf[next_ifd_offset + 2] + 256 * raw_buf[next_ifd_offset + 1]
\* the bytes of the buffer from next_ifd_offset on
C17_Rest == Len(raw_buf) - next_ifd_offset

\* C17: no slice the walker takes is out of range, and each malformed case
\* ends in its error: a buffer under 8 bytes, an unrecognised magic, an IFD
\* offset with offset + 2 beyond the buffer, an entry count whose
\* count * 12 bytes do not fit after the count, and a next-IFD field that
\* does not fit after the entries.
C17_ReadsInsideBuffer ==
    /\ result # SliceOutOfRange
    /\ (pc = "done" /\ result # "io error" /\ Len(raw_buf) < 8)
          => result = "Not enough data for TIFF header"
    /\ ( /\ pc = "done" /\ result # "io error" /\ Len(raw_buf) >= 8
         /\ SubSeq(raw_buf, 1, 4) \notin {<<73, 73, 42, 0>>, <<77, 77, 0, 42>>} )
          => result = "Not a valid TIFF file"
    /\ (C17_FailedInLoop /\ next_ifd_offset + 2 > Len(raw_buf))
          => result = "Invalid IFD offset"
    /\ ( /\ C17_FailedInLoop /\ next_ifd_offset + 2 <= Len(raw_buf)
         /\ C17_Count * 12 > C17_Rest - 2 )
          => result = "Invalid number of IFD entries"
    /\ ( /\ C17_FailedInLoop /\ next_ifd_offset + 2 <= Len(raw_buf)
         /\ C17_Count * 12 <= C17_Rest - 2
         /\ C17_Count * 12 + 6 > C17_Rest )
          => result = "Invalid next IFD offset"
    /\ C17_FailedInLoop =>
          result \in {"Invalid IFD offset", "Invalid number of IFD entries",
                      "Invalid next IFD offset"}
C17_Witness ==
    /\ layout.cut = 8
    /\ pc = "done"
    /\ result = "Invalid IFD offset"
    /\ next_ifd_offset = Len(raw_buf)

\* C19: process_file never panics, and never ends with a destination that
\* holds only the SOI marker.
C19_NoPanicNoBareSOI ==
    pc = "done" => (result # "panic" /\ out_file # Some(SOI))

InFlight ==
    { t \in Tasks : tpc[t] \in {"open", "create", "soi", "app1", "body", "finished", "hung"} }

\* every file of the batch is one whose extraction returns: Ok or Err
EveryExtractionReturns == \A t \in Tasks : entries[t].kind \in {"good", "bad", "plain"}

\* the files of the batch whose extraction fails
FailingFiles == { t \in Tasks : entries[t].kind = "bad" }

\* C1: at most N tasks are between acquiring a permit and releasing it,
\* for every cap N, every batch and every interleaving.
C1_AtMostNInFlight == Cardinality(InFlight) <= transfers
C1_Witness ==
    /\ transfers = 2
    /\ Cardinality(InFlight) = 2
    /\ \E t \in Tasks : tpc[t] = "spawned"

\* C2: when one file's extraction fails, every other task still reaches
\* its end before the run ends: once main has returned, every task of a
\* batch whose extractions all return is done.
C2_AllTasksReachTheirEnd ==
    (main_pc = "exited" /\ EveryExtractionReturns) =>
        \A t \in Tasks : tpc[t] = "done"

\* C3: process_directory returns an error exactly when some task's
\* process_file returned an error or panicked, whatever the order the
\* tasks completed in; main's exit status follows it.  A batch that ends
\* Ok has run every file to Ok.
C3_ErrorIffSomeFailure ==
    /\ pd_result # "" =>
          (pd_result = "err" <=> \E t \in Tasks : tresult[t] \in {"err", "panic"})
    /\ pd_result = "ok" =>
          \A t \in Tasks : entries[t].kind = "good" /\ tresult[t] = "ok"
    /\ pd_result = "err" => \E t \in Tasks : entries[t].kind \in {"bad", "tiny"}
    /\ main_pc = "exited" => (exit_code # 0 <=> pd_result = "err")
C3_Witness ==
    /\ main_pc = "exited"
    /\ exit_code = 1
    /\ Len(entries) = 3
    /\ tresult[1] = "ok"
    /\ tresult[2] = "err"
    /\ tresult[3] = "ok"

\* C4: when k >= 1 files fail extraction, the run ends with exactly k
\* failures reported, each failed file logged with its path and error.
C4_ReportsEveryFailure ==
    (main_pc = "exited" /\ EveryExtractionReturns) =>
        Cardinality(errlog) = Cardinality(FailingFiles)

\* C13: for every cap N and every batch whose extractions all return, the
\* run is never stuck before main returns: while main is running, some
\* step of main or of a task can be taken, so no task waits for a permit
\* forever.
C13_NeverStuck ==
    (main_pc = "running" /\ EveryExtractionReturns) => ENABLED Next

\* the tasks that have ended by returning or by panicking
C18_Ended == { t \in Tasks : tpc[t] \in {"done", "panicked"} }

\* C18: held permits plus available permits equals N in every state; every
\* task that has ended, by success, error or panic, has released its permit
\* and has been counted by the progress bar; once all tasks have ended all
\* N permits are available.
C18_ReleaseThenReport ==
    /\ Cardinality(InFlight) + semaphore = transfers
    /\ \A t \in C18_Ended : ~HoldsPermit(t)
    /\ progress = Cardinality(C18_Ended)
    /\ (\A t \in Tasks : tpc[t] \in {"done", "panicked", "cancelled"})
          => semaphore = transfers
\* the part of C18 that is about the permits alone
C18_PermitsConserved ==
    /\ Cardinality(InFlight) + semaphore = transfers
    /\ (\A t \in Tasks : tpc[t] \in {"done", "panicked", "cancelled"})
          => semaphore = transfers

(***************************************************************************)
(* Properties of the program on a directory tree (SpecTree).               *)
(***************************************************************************)
\* the scan is over: entries is the list the tasks are spawned from
Scanned == main_pc # "scanning"
\* file f of the tree was discovered by the scan
Discovered(f) == \E t \in Tasks : entries[t] = f

\* C11: any two distinct discovered files have distinct destination paths,
\* so no two tasks create or write the same output file.
C11_DistinctDestinations ==
    \A s, t \in Tasks : s # t => Dest(entries[s]) # Dest(entries[t])

\* C12: once the scan is over, so before the first task is spawned, every
\* directory of the input tree that holds a matching file has its mirror
\* under the output directory; no task is in write_jpeg while the directory
\* of its destination is missing, and no File::create fails for want of it.
C12_DirsBeforeTasks ==
    /\ spawned > 0 => Scanned
    /\ Scanned =>
          /\ \A f \in tree : Matches(f, ext_arg) => f.dir \in out_dirs
          /\ \A t \in Tasks :
                /\ tpc[t] \in {"create", "soi", "app1", "body"}
                      => Dest(entries[t]).dir \in out_dirs
                /\ tresult[t] = "err" => Walked(t).status = "err"
C12_Witness ==
    /\ run = 1
    /\ Scanned
    /\ \E t \in Tasks :
          /\ entries[t].dir = <<"a", "b">>
          /\ tpc[t] = "soi"
          /\ Dest(entries[t]) \in DOMAIN fs
    /\ <<"a">> \in out_dirs

\* an extension with every capital replaced by its lower-case letter
C14_Lowered(ext) ==
    [i \in 1..Len(ext) |->
        IF \E j \in DOMAIN UpperChars : UpperChars[j] = ext[i]
        THEN LowerChars[CHOOSE j \in DOMAIN UpperChars : UpperChars[j] = ext[i]]
        ELSE ext[i]]
\* an extension that holds no capital / no lower-case letter
C14_AllLower(ext) ==
    \A i \in 1..Len(ext) : \A j \in DOMAIN UpperChars : ext[i] # UpperChars[j]
C14_AllUpper(ext) ==
    \A i \in 1..Len(ext) : \A j \in DOMAIN LowerChars : ext[i] # LowerChars[j]
\* the file's extension is a built-in extension in some mix of cases
C14_BuiltInAnyCase(f) ==
    f.ext # None /\ C14_Lowered(f.ext[1]) \in BuiltInExtensions

C15_SecondRunSameOutputs ==
    (run = 2 /\ main_pc = "exited") => fs = fs_run1

=============================================================================
